---- MODULE Spec2Model ----
(***************************************************************************)
(* Authorization filter for the PouchDB _changes feed.                     *)
(*                                                                         *)
(* The model covers isUserAllowed (the visibility policy) and              *)
(* createPouchFilterMiddleware (the response-wrapping middleware): its     *)
(* line buffer, the res.write and res.end overrides, the concurrent        *)
(* db.get lookups of each batch of lines and the deferred originalWrite    *)
(* of every batch.  The upstream feed (express-pouchdb), the database and  *)
(* the viewer are the environment.                                         *)
(***************************************************************************)
EXTENDS Integers, Sequences, FiniteSets, TLC

(***************************************************************************)
(* Bounds of the model.                                                    *)
(***************************************************************************)
MaxSeq == 2          \* changes recorded in the feed
MaxChunk == 4        \* characters handed to one res.write call
MaxPending == 1      \* unsent pieces the upstream may hold when it serialises more
MaxHeartbeats == 1   \* heartbeat lines the upstream emits per session
MaxSessions == 2     \* connections of the viewer (one reconnect)

(***************************************************************************)
(* Principals and documents (schemas.ts).  A document is reduced to the    *)
(* fields isUserAllowed reads; hasStudentIds = FALSE is a stored document  *)
(* without a studentIds array.                                             *)
(***************************************************************************)
Roles == {"student", "teacher", "admin"}
UserIds == {"s1", "t1"}
DocTypes == {"user", "teacher", "student", "class", "note"}
KnownTypes == {"user", "teacher", "student", "class"}

Principals == [userId : UserIds, role : Roles]

Documents ==
    [type : DocTypes, _id : UserIds \cup {"d1"}, teacherId : UserIds,
     hasStudentIds : BOOLEAN, studentIds : SUBSET UserIds]

\* isUserAllowed with Rule 3 (teachers see every student and teacher
\* document) left out of the rule list.
isUserAllowedNoBlanket(u, doc) ==
    IF u.role = "admin" THEN "allow"
    ELSE IF doc.type = "user" /\ doc._id = u.userId THEN "allow"
    ELSE IF doc.type = "class" /\ u.role = "teacher" /\ doc.teacherId = u.userId
         THEN "allow"
    ELSE IF doc.type = "class" /\ u.role = "student"
         THEN IF ~doc.hasStudentIds THEN "throw"
              ELSE IF u.userId \in doc.studentIds THEN "allow" ELSE "deny"
    ELSE "deny"

\* isUserAllowed: "allow" is true, "deny" is false, "throw" is the TypeError
\* of doc.studentIds.includes on a document without studentIds.
isUserAllowed(u, doc) ==
    IF u.role = "admin" THEN "allow"
    ELSE IF doc.type = "user" /\ doc._id = u.userId THEN "allow"
    ELSE IF u.role = "teacher" /\ doc.type \in {"student", "teacher"} THEN "allow"
    ELSE IF doc.type = "class" /\ u.role = "teacher" /\ doc.teacherId = u.userId
         THEN "allow"
    ELSE IF doc.type = "class" /\ u.role = "student"
         THEN IF ~doc.hasStudentIds THEN "throw"
              ELSE IF u.userId \in doc.studentIds THEN "allow" ELSE "deny"
    ELSE "deny"

(***************************************************************************)
(* The stored documents of the shared database, by id: a is a class of     *)
(* teacher t1 with student s1, b is the user document of somebody else,    *)
(* c is a class of another teacher stored without studentIds.              *)
(***************************************************************************)
DocIds == {"a", "b", "c"}

DB ==
    [d \in DocIds |->
        CASE d = "a" -> [type |-> "class", _id |-> "d1", teacherId |-> "t1",
                         hasStudentIds |-> TRUE, studentIds |-> {"s1"}]
          [] d = "b" -> [type |-> "user", _id |-> "d1", teacherId |-> "t1",
                         hasStudentIds |-> FALSE, studentIds |-> {}]
          [] d = "c" -> [type |-> "class", _id |-> "d1", teacherId |-> "t2",
                         hasStudentIds |-> FALSE, studentIds |-> {}]]

\* The principals that open a filtered feed session.
Viewers == {[userId |-> "s1", role |-> "student"],
            [userId |-> "t1", role |-> "teacher"]}

(***************************************************************************)
(* Pieces of the response stream.  A change line is the two pieces         *)
(* body "}" where body is the text up to the closing brace and carries     *)
(* seq, id and the deleted flag; the last_seq line is lastseq "}"; "\n"    *)
(* ends a line.  A chunk boundary may fall between any two pieces.         *)
(***************************************************************************)
Tok(t, s, i, d) == [t |-> t, seq |-> s, id |-> i, del |-> d]
NL == Tok("nl", 0, "", FALSE)
SP == Tok("sp", 0, "", FALSE)
CLOSE == Tok("close", 0, "", FALSE)
Body(s, i, d) == Tok("body", s, i, d)
LastSeq(s) == Tok("lastseq", s, "", FALSE)

RecordLine(s, c) == <<Body(s, c.id, c.del), CLOSE>>
LastSeqLine(s) == <<LastSeq(s), CLOSE>>

\* buffer.lastIndexOf('\n'), 0 when there is none
LastIndexOfNL(s) ==
    IF \E k \in 1..Len(s) : s[k] = NL
    THEN CHOOSE k \in 1..Len(s) : s[k] = NL /\ \A j \in (k+1)..Len(s) : s[j] # NL
    ELSE 0

FirstIndexOfNL(s) ==
    IF \E k \in 1..Len(s) : s[k] = NL
    THEN CHOOSE k \in 1..Len(s) : s[k] = NL /\ \A j \in 1..(k-1) : s[j] # NL
    ELSE 0

\* String.prototype.split('\n')
RECURSIVE Split(_)
Split(s) ==
    LET k == FirstIndexOfNL(s) IN
    IF k = 0 THEN <<s>>
    ELSE <<SubSeq(s, 1, k-1)>> \o Split(SubSeq(s, k+1, Len(s)))

\* Array.prototype.join('\n')
RECURSIVE Join(_)
Join(ls) ==
    IF Len(ls) = 0 THEN <<>>
    ELSE IF Len(ls) = 1 THEN ls[1]
    ELSE ls[1] \o <<NL>> \o Join(Tail(ls))

\* !line.trim(): the line is empty or whitespace only
IsBlank(line) == \A k \in 1..Len(line) : line[k] = SP

\* JSON.parse(line) succeeds
ParseOk(line) ==
    /\ Len(line) = 2
    /\ line[1].t \in {"body", "lastseq"}
    /\ line[2] = CLOSE

\* change.id is present
HasId(line) == ParseOk(line) /\ line[1].t = "body"

\* the line makes the filter call db.get
NeedsLookup(line) == ~IsBlank(line) /\ HasId(line)

(***************************************************************************)
(* Requests.  An Authorization header is the list of its pieces between    *)
(* single blanks, <<>> when the header is absent or empty.  A token is     *)
(* named by a string; jwt.verify accepts the tokens that were signed with  *)
(* JWT_SECRET and have not expired.                                        *)
(***************************************************************************)
Tokens == {"tS", "tT", "tA", "xS", "fA", "junk", ""}

NoUser == [userId |-> "", role |-> ""]

\* the claims a token carries, verified or not (username left out)
TokenClaims(tok) ==
    CASE tok = "tS" -> [userId |-> "s1", role |-> "student"]
      [] tok = "tT" -> [userId |-> "t1", role |-> "teacher"]
      [] tok = "tA" -> [userId |-> "t1", role |-> "admin"]
      [] tok = "xS" -> [userId |-> "s1", role |-> "student"]   \* expired
      [] tok = "fA" -> [userId |-> "s1", role |-> "admin"]     \* signed with another key
      [] OTHER -> NoUser

\* jwt.verify(token, JWT_SECRET) returns the payload instead of throwing
JwtVerifies(tok) == tok \in {"tS", "tT", "tA"}

Headers == {<<>>, <<"Bearer">>, <<"Bearer", "">>, <<"Basic", "tA">>, <<"bearer", "tA">>,
            <<"tA">>, <<"Bearer", "", "tA">>, <<"Bearer", "junk">>, <<"Bearer", "xS">>,
            <<"Bearer", "fA">>, <<"Bearer", "tS">>, <<"Bearer", "tT">>,
            <<"Bearer", "tA">>}

\* authHeader.startsWith('Bearer ')
StartsWithBearer(h) == Len(h) >= 2 /\ h[1] = "Bearer"

\* authHeader.split(' ')[1]
HeaderToken(h) == h[2]

Routes == {"/api/auth", "/db", "/api/users", "/api/teachers", "/api/students",
           "/api/classes"}

\* the mounts of server.ts that name authMiddleware
Protected(route) == route # "/api/auth"

\* The shapes of a request: on /db a changes request with or without the
\* feed parameter or the fetch of one document; one shape per other route.
Requests ==
    [route : {"/db"}, header : Headers, path : {"_changes"},
     feed : {"", "longpoll"}, doc : {"a"}]
    \cup [route : {"/db"}, header : Headers, path : {"doc"}, feed : {""}, doc : DocIds]
    \cup [route : Routes \ {"/db"}, header : Headers, path : {""}, feed : {""},
          doc : {"a"}]

(***************************************************************************)
(* Data of the REST routers and of login: user names, document ids, the    *)
(* documents of the database, request bodies, token payloads.              *)
(***************************************************************************)
MaxApiRequests == 2  \* login and REST requests the server handles, one after the other

\* req.body.username of a login, in pieces; <<>> is a missing or empty name
Usernames == {<<>>, <<"ann">>, <<"teacher", "bob">>, <<"root">>}

\* req.body.password of a login; "" is a missing or empty password
Passwords == {"", "pw"}

\* username.startsWith('teacher')
StartsWithTeacher(name) == Len(name) >= 1 /\ name[1] = "teacher"

\* `user_${username}`
UserDocId(name) == <<"user_">> \o name

\* _id of the documents the database can hold: the user documents, a
\* class, a student, and the id db.post generates
NewId == <<"n1">>
ApiIds == {UserDocId(n) : n \in Usernames \ {<<>>}} \cup {<<"c1">>, <<"p1">>, NewId}

ApiRoutes == {"/api/users", "/api/teachers", "/api/students", "/api/classes"}

\* the `type` constant of the router mounted on a route
RouterType(route) ==
    CASE route = "/api/users" -> "user"
      [] route = "/api/teachers" -> "teacher"
      [] route = "/api/students" -> "student"
      [] route = "/api/classes" -> "class"

\* _rev of a document: the document it belongs to and its generation; the
\* revisions of two documents are never equal
Rev(id, n) == [of |-> id, n |-> n]

\* no document is stored under the id (never stored, or removed)
Absent == [_id |-> <<>>, _rev |-> Rev(<<>>, 0), type |-> "absent", username |-> <<>>,
           role |-> "none", teacherId |-> <<>>, hasStudentIds |-> FALSE,
           studentIds |-> {}]

\* a user document; role "none" is a document without role
UserDoc(name, role) ==
    [_id |-> UserDocId(name), _rev |-> Rev(UserDocId(name), 1), type |-> "user",
     username |-> name, role |-> role, teacherId |-> <<>>, hasStudentIds |-> FALSE,
     studentIds |-> {}]

\* a class document
ClassDoc(id, teacher, students) ==
    [_id |-> id, _rev |-> Rev(id, 1), type |-> "class", username |-> <<>>,
     role |-> "none", teacherId |-> teacher, hasStudentIds |-> TRUE,
     studentIds |-> students]

\* a student document
StudentDoc(id) ==
    [_id |-> id, _rev |-> Rev(id, 1), type |-> "student", username |-> <<>>,
     role |-> "none", teacherId |-> <<>>, hasStudentIds |-> FALSE, studentIds |-> {}]

\* req.body of a POST or PUT: the fields it carries; "none", <<>> and
\* hasStudentIds = FALSE stand for a field the body does not carry.  A _rev
\* in a body is "stale", a revision that is not current, or "of c1", the
\* current revision of the class document, which the client has read.
NoBody == [type |-> "none", role |-> "none", teacherId |-> <<>>,
           hasStudentIds |-> FALSE, studentIds |-> {}, _id |-> <<>>, _rev |-> "none"]

ApiBodies ==
    {NoBody,
     [NoBody EXCEPT !.role = "admin"],
     [NoBody EXCEPT !.type = "class"],
     [NoBody EXCEPT !.type = "student"],
     [NoBody EXCEPT !.teacherId = UserDocId(<<"teacher", "bob">>)],
     [NoBody EXCEPT !.hasStudentIds = TRUE, !.studentIds = {UserDocId(<<"ann">>)}],
     [NoBody EXCEPT !.teacherId = UserDocId(<<"teacher", "bob">>),
                    !.hasStudentIds = TRUE, !.studentIds = {<<"p1">>}],
     [NoBody EXCEPT !._id = <<"c1">>],
     [NoBody EXCEPT !._rev = "stale"],
     [NoBody EXCEPT !._id = <<"c1">>, !._rev = "of c1"]}

\* the payload of a token: userId, username, role
NoToken == [userId |-> <<>>, username |-> <<>>, role |-> ""]

(***************************************************************************)
(* State.                                                                  *)
(***************************************************************************)
VARIABLES
    user,       \* req.user of the session, set by authMiddleware
    feed,       \* the database's change log: feed[s] is the change with seq s
    session,    \* number of the viewer's current connection
    since,      \* cursor the viewer supplied for this connection
    upNext,     \* seq of the next change the upstream will serialise
    upFinal,    \* the upstream has produced its last line
    upLast,     \* value of the last_seq line the upstream produced, -1 if none
    hbCount,    \* heartbeats the upstream produced in this session
    wire,       \* response characters produced upstream, not yet written
    buffer,     \* the middleware's line buffer
    batches,    \* one entry per Promise.all of a res.write call
    ready,      \* batches whose Promise.all resolved, in resolution order
    out,        \* characters accepted by the underlying response
    ended,      \* originalEnd was called
    closed,     \* the viewer dropped the connection
    lookupLog,  \* per seq: what db.get and isUserAllowed returned
    gets,       \* per seq: db.get calls issued in this session
    prevOut,    \* seqs of the records received in earlier connections
    sent,       \* every character the upstream produced in this session
    full,       \* the underlying response is over its high-water mark
    writeRet,   \* what the last call of the res.write override returned
    pUser,      \* policy check: principal
    pDoc,       \* policy check: document
    pResult,    \* policy check: result of isUserAllowed
    filterMounted, \* deployment: createPouchFilterMiddleware is mounted on /db
    rq,         \* the request being served: route, Authorization header, path, query
    rqUser,     \* req.user of that request
    rqStage,    \* the middleware the request is at
    rqStatus,   \* status of the response, 0 while none is sent
    rqInvoked,  \* the handler mounted behind the middlewares was invoked
    rqBody,     \* ids of the documents in the response body
    rqOverride, \* res.write and res.end of the response were replaced
    rqNext,     \* next() calls made by the filter middleware
    rqCount,    \* requests the server has received
    sockets,    \* clients with a Socket.IO connection
    inbox,      \* per client: ids of the database_change events it received
    pairUser,   \* two concurrent sessions: req.user of each
    pairWire,   \* per session: response characters produced upstream, not yet written
    cell,       \* the storage of the `buffer` variables of the closures
    pairSess,   \* per session: batches, resolved batches, output, ended
    pairHist,   \* per session: its own res.write and res.end calls, lookups, flushes
    store,      \* the database the routers work on: per id the document or Absent
    issued,     \* payloads of the tokens that verify
    apiAdmin,   \* the database was set up with an admin user
    apiReq,     \* the last login or REST request handled
    apiStatus,  \* status of its response
    apiList,    \* ids of the documents in the body of its response
    apiToken,   \* payload of the token in its response, NoToken without one
    apiCount    \* login and REST requests handled

vars == <<user, feed, session, since, upNext, upFinal, upLast, hbCount, wire, buffer,
          batches, ready, out, ended, closed, lookupLog, gets, prevOut, sent, full,
          writeRet, pUser, pDoc, pResult,
          filterMounted, rq, rqUser, rqStage, rqStatus, rqInvoked, rqBody, rqOverride,
          rqNext, rqCount, sockets, inbox, pairUser, pairWire, cell, pairSess,
          pairHist, store, issued, apiAdmin, apiReq, apiStatus, apiList, apiToken,
          apiCount>>

sessionVars == <<user, feed, session, since, upNext, upFinal, upLast, hbCount, wire,
                 buffer, batches, ready, out, ended, closed, lookupLog, gets,
                 prevOut, sent, full, writeRet>>

policyVars == <<pUser, pDoc, pResult>>

requestVars == <<filterMounted, rq, rqUser, rqStage, rqStatus, rqInvoked, rqBody,
                 rqOverride, rqNext, rqCount>>

socketVars == <<sockets, inbox>>

pairVars == <<pairUser, pairWire, cell, pairSess, pairHist>>

apiVars == <<store, issued, apiAdmin, apiReq, apiStatus, apiList, apiToken, apiCount>>

\* the state outside a feed session, a policy check, a request, the
\* sockets, a pair of sessions
otherVars == <<policyVars, requestVars, socketVars, pairVars, apiVars>>
notPolicyVars == <<sessionVars, requestVars, socketVars, pairVars, apiVars>>
notRequestVars == <<sessionVars, policyVars, socketVars, pairVars, apiVars>>
notSocketVars == <<sessionVars, policyVars, requestVars, pairVars, apiVars>>
notPairVars == <<sessionVars, policyVars, requestVars, socketVars, apiVars>>
notApiVars == <<sessionVars, policyVars, requestVars, socketVars, pairVars>>

Seqs == 1..(MaxSeq + 1)

NoDoc == [type |-> "note", _id |-> "d1", teacherId |-> "t1",
          hasStudentIds |-> FALSE, studentIds |-> {}]

EmptyLog == [s \in Seqs |-> "none"]
NoGets == [s \in Seqs |-> 0]

\* ids whose document is deleted in the database
Deleted == {feed[k].id : k \in {j \in 1..Len(feed) : feed[j].del}}

Min(a, b) == IF a < b THEN a ELSE b

\* every batch and every line of a batch ends with one "\n" of the session
MaxBatches == MaxSeq + MaxHeartbeats + 1

\* seqs of the change lines in a character sequence, in order
RECURSIVE SeqsOf(_)
SeqsOf(s) ==
    IF Len(s) = 0 THEN <<>>
    ELSE IF s[1].t = "body" THEN <<s[1].seq>> \o SeqsOf(Tail(s))
    ELSE SeqsOf(Tail(s))

\* values of the last_seq lines in a character sequence, in order
RECURSIVE LastSeqsOf(_)
LastSeqsOf(s) ==
    IF Len(s) = 0 THEN <<>>
    ELSE IF s[1].t = "lastseq" THEN <<s[1].seq>> \o LastSeqsOf(Tail(s))
    ELSE LastSeqsOf(Tail(s))

SessionInit ==
    /\ feed = <<>>
    /\ session = 1
    /\ since = 0
    /\ upNext = 1
    /\ upFinal = FALSE
    /\ upLast = -1
    /\ hbCount = 0
    /\ wire = <<>>
    /\ buffer = <<>>
    /\ batches = <<>>
    /\ ready = <<>>
    /\ out = <<>>
    /\ ended = FALSE
    /\ closed = FALSE
    /\ lookupLog = EmptyLog
    /\ gets = NoGets
    /\ prevOut = <<>>
    /\ sent = <<>>
    /\ full = FALSE
    /\ writeRet = "none"

\* no policy check in progress
PolicyIdle ==
    /\ pUser = [userId |-> "s1", role |-> "student"]
    /\ pDoc = NoDoc
    /\ pResult = "none"

\* the server has received no request that is followed through the mounts
RequestIdle ==
    /\ filterMounted = TRUE
    /\ rq = [route |-> "/db", header |-> <<>>, path |-> "", feed |-> "", doc |-> "a"]
    /\ rqUser = NoUser
    /\ rqStage = "none"
    /\ rqStatus = 0
    /\ rqInvoked = FALSE
    /\ rqBody = {}
    /\ rqOverride = FALSE
    /\ rqNext = 0
    /\ rqCount = 0

\* no client is connected by Socket.IO
SocketIdle ==
    /\ sockets = {}
    /\ inbox = [c \in Viewers |-> {}]

Sessions == {1, 2}

\* the state of a session when the filter middleware has installed its
\* overrides
PairStart == [buffer |-> <<>>, batches |-> <<>>, ready |-> <<>>, out |-> <<>>,
              ended |-> FALSE]

\* what a session keeps outside its line buffer
PairRest(st) == [batches |-> st.batches, ready |-> st.ready, out |-> st.out,
                 ended |-> st.ended]

\* no pair of concurrent sessions is followed
PairIdle ==
    /\ pairUser = [i \in Sessions |-> [userId |-> "s1", role |-> "student"]]
    /\ pairWire = [i \in Sessions |-> <<>>]
    /\ cell = [i \in Sessions |-> <<>>]
    /\ pairSess = [i \in Sessions |-> PairRest(PairStart)]
    /\ pairHist = [i \in Sessions |-> <<>>]

\* The database at start: the user documents of the people who logged in
\* before (ann only when annKnown, root only when admin), a class of
\* teacher bob with student ann and student document p1, and p1.
StoreInit(annKnown, admin) ==
    [id \in ApiIds |->
        CASE id = UserDocId(<<"ann">>) ->
                 IF annKnown THEN UserDoc(<<"ann">>, "student") ELSE Absent
          [] id = UserDocId(<<"teacher", "bob">>) -> UserDoc(<<"teacher", "bob">>, "teacher")
          [] id = UserDocId(<<"root">>) ->
                 IF admin THEN UserDoc(<<"root">>, "admin") ELSE Absent
          [] id = <<"c1">> -> ClassDoc(<<"c1">>, UserDocId(<<"teacher", "bob">>),
                                       {UserDocId(<<"ann">>), <<"p1">>})
          [] id = <<"p1">> -> StudentDoc(<<"p1">>)
          [] OTHER -> Absent]

\* the payload login signs for a user document
Payload(userDoc) ==
    [userId |-> userDoc._id, username |-> userDoc.username,
     role |-> IF userDoc.role = "none" THEN "student" ELSE userDoc.role]

\* the tokens of the users of a database
TokensOf(st) == {Payload(st[id]) : id \in {i \in ApiIds : st[i].type = "user"}}

NoApiRequest == [method |-> "none", route |-> "", id |-> <<>>, user |-> NoToken,
                 body |-> NoBody, username |-> <<>>, password |-> ""]

\* no login or REST request is followed
ApiIdle ==
    /\ store = StoreInit(TRUE, TRUE)
    /\ issued = TokensOf(store)
    /\ apiAdmin = TRUE
    /\ apiReq = NoApiRequest
    /\ apiStatus = 0
    /\ apiList = {}
    /\ apiToken = NoToken
    /\ apiCount = 0

Init ==
    /\ user \in Viewers
    /\ SessionInit
    /\ PolicyIdle
    /\ RequestIdle
    /\ SocketIdle
    /\ PairIdle
    /\ ApiIdle

(***************************************************************************)
(* Environment: the database and the upstream feed handler.                *)
(***************************************************************************)
\* ids with an entry in the change log
Changed == {feed[k].id : k \in 1..Len(feed)}

\* A writer creates, changes or deletes document d; the change log grows
\* by one.  The log starts with the database, so a deletion follows an
\* earlier change of the same document.  (Changes are taken one at a time:
\* the live feed has serialised the previous change before the next one
\* is made.)
DbChange(d, del) ==
    /\ Len(feed) < MaxSeq
    /\ upNext > Len(feed)
    /\ d \notin Deleted
    /\ del => d \in Changed
    /\ feed' = Append(feed, [id |-> d, del |-> del])
    /\ UNCHANGED <<sent, full, writeRet>>
    /\ UNCHANGED <<user, session, since, upNext, upFinal, upLast, hbCount, wire, buffer,
                   batches, ready, out, ended, closed, lookupLog, gets, prevOut>>
    /\ UNCHANGED otherVars

Open == ~ended /\ ~closed

\* The upstream serialises more output only when it has handed (nearly)
\* all of its earlier output to res.write.
UpCanEmit == Open /\ ~upFinal /\ Len(wire) <= MaxPending

\* The upstream serialises the next change of the feed.
UpEmitRecord(nl) ==
    /\ UpCanEmit
    /\ upNext <= Len(feed)
    /\ LET line == RecordLine(upNext, feed[upNext]) \o (IF nl THEN <<NL>> ELSE <<>>)
       IN  wire' = wire \o line /\ sent' = sent \o line
    /\ upNext' = upNext + 1
    /\ upFinal' = ~nl
    /\ UNCHANGED <<full, writeRet>>
    /\ UNCHANGED <<user, feed, session, since, upLast, hbCount, buffer, batches,
                   ready, out, ended, closed, lookupLog, gets, prevOut>>
    /\ UNCHANGED otherVars

\* The upstream emits a heartbeat, an empty line, while it has no change
\* to serialise.
UpEmitHeartbeat ==
    /\ UpCanEmit
    /\ upNext > Len(feed)
    /\ hbCount < MaxHeartbeats
    /\ wire' = wire \o <<NL>>
    /\ sent' = sent \o <<NL>>
    /\ hbCount' = hbCount + 1
    /\ UNCHANGED <<full, writeRet>>
    /\ UNCHANGED <<user, feed, session, since, upNext, upFinal, upLast, buffer, batches,
                   ready, out, ended, closed, lookupLog, gets, prevOut>>
    /\ UNCHANGED otherVars

\* The upstream closes its snapshot with the last_seq line.
UpEmitLastSeq(nl) ==
    /\ UpCanEmit
    /\ upNext > Len(feed)
    /\ LET line == LastSeqLine(upNext - 1) \o (IF nl THEN <<NL>> ELSE <<>>)
       IN  wire' = wire \o line /\ sent' = sent \o line
    /\ upFinal' = TRUE
    /\ upLast' = upNext - 1
    /\ UNCHANGED <<full, writeRet>>
    /\ UNCHANGED <<user, feed, session, since, upNext, hbCount, buffer, batches,
                   ready, out, ended, closed, lookupLog, gets, prevOut>>
    /\ UNCHANGED otherVars

(***************************************************************************)
(* createPouchFilterMiddleware.                                            *)
(***************************************************************************)
\* a response that would accept data after it was finished or destroyed
TransportWriteAlways(data) == out \o data

\* originalWrite.call(res, data): a finished or destroyed response
\* accepts nothing.
TransportWrite(data) == IF ended \/ closed THEN out ELSE out \o data

\* The entry of a line in the result array of Promise.all right after
\* lines.map: lines that need no lookup are resolved with the line itself.
InitialRes(lines) ==
    [k \in 1..Len(lines) |-> IF NeedsLookup(lines[k]) THEN "pending" ELSE "keep"]

LookupSeqs(lines) == {lines[k][1].seq : k \in {j \in 1..Len(lines) : NeedsLookup(lines[j])}}

\* res.write override with the next n characters of the upstream.
Write(n) ==
    /\ Open
    /\ n \in 1..Min(MaxChunk, Len(wire))
    /\ LET buf == buffer \o SubSeq(wire, 1, n)
           boundary == LastIndexOfNL(buf)
           lines == Split(SubSeq(buf, 1, boundary - 1))
       IN  /\ wire' = SubSeq(wire, n + 1, Len(wire))
           /\ writeRet' = "true"
           /\ IF boundary # 0
              THEN /\ buffer' = SubSeq(buf, boundary + 1, Len(buf))
                   /\ batches' = Append(batches,
                                    [lines |-> lines, res |-> InitialRes(lines)])
                   /\ ready' = IF LookupSeqs(lines) = {}
                               THEN Append(ready, Len(batches) + 1) ELSE ready
                   /\ lookupLog' = [s \in Seqs |->
                          IF s \in LookupSeqs(lines) THEN "pending" ELSE lookupLog[s]]
                   /\ gets' = [s \in Seqs |->
                          IF s \in LookupSeqs(lines) THEN gets[s] + 1 ELSE gets[s]]
              ELSE /\ buffer' = buf
                   /\ UNCHANGED <<batches, ready, lookupLog, gets>>
    /\ UNCHANGED <<sent, full>>
    /\ UNCHANGED <<user, feed, session, since, upNext, upFinal, upLast, hbCount, out,
                   ended, closed, prevOut>>
    /\ UNCHANGED otherVars

\* What db.get(id) yields when it does not fail transiently.
DbGet(id) == IF id \in Deleted THEN "notfound" ELSE "found"

\* Outcome of the try block for a change of document id.
Outcome(id, transient) ==
    IF transient THEN "error"
    ELSE IF DbGet(id) = "notfound" THEN "notfound"
    ELSE isUserAllowed(user, DB[id])

\* The value the async line callback returns: null only when the policy
\* returned false; every exception is caught and the line is returned.
LineResult(o) == IF o = "deny" THEN "drop" ELSE "keep"

\* db.get of line k of batch b settles; the callback finishes.
LookupComplete(b, k, transient) ==
    /\ b \in 1..Len(batches)
    /\ k \in 1..Len(batches[b].lines)
    /\ batches[b].res[k] = "pending"
    /\ LET line == batches[b].lines[k]
           o == Outcome(line[1].id, transient)
           res2 == [batches[b].res EXCEPT ![k] = LineResult(o)]
       IN  /\ batches' = [batches EXCEPT ![b].res = res2]
           /\ lookupLog' = [lookupLog EXCEPT ![line[1].seq] = o]
           /\ ready' = IF \A j \in 1..Len(res2) : res2[j] # "pending"
                       THEN Append(ready, b) ELSE ready
    /\ UNCHANGED <<sent, full, writeRet>>
    /\ UNCHANGED <<user, feed, session, since, upNext, upFinal, upLast, hbCount, wire,
                   buffer, out, ended, closed, gets, prevOut>>
    /\ UNCHANGED otherVars

\* allowedLines.filter(line => line !== null)
RECURSIVE Kept(_, _)
Kept(lines, res) ==
    IF Len(lines) = 0 THEN <<>>
    ELSE (IF res[1] = "keep" THEN <<lines[1]>> ELSE <<>>)
         \o Kept(Tail(lines), Tail(res))

FilteredOutput(b) == Join(Kept(b.lines, b.res)) \o <<NL>>

\* The then callback of the oldest resolved Promise.all.
Flush ==
    /\ ready # <<>>
    /\ LET b == Head(ready)
       IN  /\ out' = TransportWrite(FilteredOutput(batches[b]))
           /\ batches' = [batches EXCEPT ![b] = [lines |-> <<>>, res |-> <<>>]]
    /\ ready' = Tail(ready)
    /\ UNCHANGED <<sent, full, writeRet>>
    /\ UNCHANGED <<user, feed, session, since, upNext, upFinal, upLast, hbCount, wire,
                   buffer, ended, closed, lookupLog, gets, prevOut>>
    /\ UNCHANGED otherVars

\* res.end override; the upstream passes what it has not written yet as
\* the argument of end.
End ==
    /\ Open
    /\ out' = out \o buffer \o wire
    /\ wire' = <<>>
    /\ ended' = TRUE
    /\ UNCHANGED <<sent, full, writeRet>>
    /\ UNCHANGED <<user, feed, session, since, upNext, upFinal, upLast, hbCount, buffer,
                   batches, ready, closed, lookupLog, gets, prevOut>>
    /\ UNCHANGED otherVars

(***************************************************************************)
(* The viewer.                                                             *)
(***************************************************************************)
\* The viewer drops the connection.
Close ==
    /\ Open
    /\ closed' = TRUE
    /\ UNCHANGED <<sent, full, writeRet>>
    /\ UNCHANGED <<user, feed, session, since, upNext, upFinal, upLast, hbCount, wire,
                   buffer, batches, ready, out, ended, lookupLog, gets, prevOut>>
    /\ UNCHANGED otherVars

\* The cursor the viewer holds after a connection: the last last_seq it
\* received, else the seq of the last change it received.
ViewerCursor ==
    IF LastSeqsOf(out) # <<>> THEN LastSeqsOf(out)[Len(LastSeqsOf(out))]
    ELSE IF SeqsOf(out) # <<>> THEN SeqsOf(out)[Len(SeqsOf(out))]
    ELSE since

\* The viewer reconnects with its cursor; a new request, a new closure.
Reconnect ==
    /\ ended \/ closed
    /\ session < MaxSessions
    /\ session' = session + 1
    /\ since' = ViewerCursor
    /\ upNext' = ViewerCursor + 1
    /\ prevOut' = prevOut \o SeqsOf(out)
    /\ upFinal' = FALSE
    /\ upLast' = -1
    /\ hbCount' = 0
    /\ wire' = <<>>
    /\ buffer' = <<>>
    /\ batches' = <<>>
    /\ ready' = <<>>
    /\ out' = <<>>
    /\ ended' = FALSE
    /\ closed' = FALSE
    /\ lookupLog' = EmptyLog
    /\ gets' = NoGets
    /\ sent' = <<>>
    /\ full' = FALSE
    /\ writeRet' = "none"
    /\ UNCHANGED <<user, feed>>
    /\ UNCHANGED otherVars

Next ==
    \/ \E d \in DocIds, del \in BOOLEAN : DbChange(d, del)
    \/ \E nl \in BOOLEAN : UpEmitRecord(nl)
    \/ UpEmitHeartbeat
    \/ \E nl \in BOOLEAN : UpEmitLastSeq(nl)
    \/ \E n \in 1..MaxChunk : Write(n)
    \/ \E b \in 1..MaxBatches, k \in 1..MaxBatches, tr \in BOOLEAN :
          LookupComplete(b, k, tr)
    \/ Flush
    \/ End

Spec == Init /\ [][Next]_vars

\* Sessions the viewer may drop, followed by the viewer's reconnects.
ResumeNext == Next \/ Close \/ Reconnect

ResumeSpec == Init /\ [][ResumeNext]_vars

(***************************************************************************)
(* A slow consumer: the underlying response fills up and drains.           *)
(***************************************************************************)
\* The viewer reads slower than the response is written: the bytes written
\* so far exceed the high-water mark, originalWrite would return false.
SlowConsumer ==
    /\ Open
    /\ out # <<>>
    /\ ~full
    /\ full' = TRUE
    /\ UNCHANGED <<user, feed, session, since, upNext, upFinal, upLast, hbCount, wire,
                   buffer, batches, ready, out, ended, closed, lookupLog, gets, prevOut,
                   sent, writeRet>>
    /\ UNCHANGED otherVars

\* The viewer caught up: 'drain'.
Drain ==
    /\ full
    /\ full' = FALSE
    /\ UNCHANGED <<user, feed, session, since, upNext, upFinal, upLast, hbCount, wire,
                   buffer, batches, ready, out, ended, closed, lookupLog, gets, prevOut,
                   sent, writeRet>>
    /\ UNCHANGED otherVars

PressureNext == Next \/ SlowConsumer \/ Drain

PressureSpec == Init /\ [][PressureNext]_vars

(***************************************************************************)
(* The policy alone: isUserAllowed applied to every principal and          *)
(* document of the bounded sets.                                           *)
(***************************************************************************)
PolicyInit ==
    /\ user = [userId |-> "s1", role |-> "student"]
    /\ SessionInit
    /\ pUser \in Principals
    /\ pDoc \in Documents
    /\ pResult = "none"
    /\ RequestIdle
    /\ SocketIdle
    /\ PairIdle
    /\ ApiIdle

Decide ==
    /\ pResult = "none"
    /\ pResult' = isUserAllowed(pUser, pDoc)
    /\ UNCHANGED <<pUser, pDoc>>
    /\ UNCHANGED notPolicyVars

PolicyNext == Decide

PolicySpec == PolicyInit /\ [][PolicyNext]_vars

(***************************************************************************)
(* A request on its way through the mounted middlewares: authMiddleware,   *)
(* on /db the filter middleware when it is mounted, then the handler.      *)
(***************************************************************************)
MaxRequests == 2     \* requests the server receives, one after the other

\* authMiddleware without jwt.verify
AuthDecisionUnverified(h) ==
    IF h = <<>> \/ ~StartsWithBearer(h) THEN "401" ELSE "next"

\* authMiddleware: what it does with a request whose Authorization header is h
AuthDecision(h) ==
    IF h = <<>> \/ ~StartsWithBearer(h) THEN "401"
    ELSE IF JwtVerifies(HeaderToken(h)) THEN "next"
    ELSE "401"

\* app.use(route, ...): the first function mounted on the route
FirstStage(route) == IF Protected(route) THEN "auth" ELSE "handler"

\* the function mounted after authMiddleware
AfterAuth(route) == IF route = "/db" /\ filterMounted THEN "filter" ELSE "handler"

\* express creates req and res of a request
Arrive(r) ==
    /\ rq' = r
    /\ rqUser' = NoUser
    /\ rqStage' = FirstStage(r.route)
    /\ rqStatus' = 0
    /\ rqInvoked' = FALSE
    /\ rqBody' = {}
    /\ rqOverride' = FALSE
    /\ rqNext' = 0

RequestInit ==
    /\ user = [userId |-> "s1", role |-> "student"]
    /\ SessionInit
    /\ PolicyIdle
    /\ SocketIdle
    /\ PairIdle
    /\ ApiIdle
    /\ filterMounted \in BOOLEAN
    /\ rq \in Requests
    /\ rqUser = NoUser
    /\ rqStage = FirstStage(rq.route)
    /\ rqStatus = 0
    /\ rqInvoked = FALSE
    /\ rqBody = {}
    /\ rqOverride = FALSE
    /\ rqNext = 0
    /\ rqCount = 1

AuthMiddleware ==
    /\ rqStage = "auth"
    /\ IF AuthDecision(rq.header) = "next"
       THEN /\ rqUser' = TokenClaims(HeaderToken(rq.header))
            /\ rqStage' = AfterAuth(rq.route)
            /\ UNCHANGED rqStatus
       ELSE /\ rqStatus' = 401
            /\ rqStage' = "done"
            /\ UNCHANGED rqUser
    /\ UNCHANGED <<filterMounted, rq, rqInvoked, rqBody, rqOverride, rqNext, rqCount>>
    /\ UNCHANGED notRequestVars

\* the pass-through test without its feed operand
PassThroughPathOnly(r, u) == r.path # "_changes" \/ u = NoUser

\* !req.path.includes('_changes') || !req.query.feed || !user
PassThrough(r, u) == r.path # "_changes" \/ r.feed = "" \/ u = NoUser

\* The entry of the filter middleware: either next() at once, or the
\* overrides of res.write and res.end are installed and next() follows.
PouchFilterMiddleware ==
    /\ rqStage = "filter"
    /\ rqOverride' = ~PassThrough(rq, rqUser)
    /\ rqNext' = rqNext + 1
    /\ rqStage' = "handler"
    /\ UNCHANGED <<filterMounted, rq, rqUser, rqStatus, rqInvoked, rqBody, rqCount>>
    /\ UNCHANGED notRequestVars

\* ids in the body express-pouchdb sends for a request it answers at once:
\* the document asked for, or the changes of every document
PouchBody(r) == IF r.path = "doc" THEN {r.doc} ELSE DocIds

\* express-pouchdb answers a /db request.  With the overrides installed
\* the answer is the feed session.
ExpressPouchDB ==
    /\ rqStage = "handler"
    /\ rq.route = "/db"
    /\ rqInvoked' = TRUE
    /\ rqStatus' = 200
    /\ IF rqOverride
       THEN /\ rqStage' = "feed"
            /\ UNCHANGED rqBody
       ELSE /\ rqStage' = "done"
            /\ rqBody' = PouchBody(rq)
    /\ UNCHANGED <<filterMounted, rq, rqUser, rqOverride, rqNext, rqCount>>
    /\ UNCHANGED notRequestVars

\* The router mounted on an /api route is invoked.
Router ==
    /\ rqStage = "handler"
    /\ rq.route # "/db"
    /\ rqInvoked' = TRUE
    /\ rqStage' = "router"
    /\ UNCHANGED <<filterMounted, rq, rqUser, rqStatus, rqBody, rqOverride, rqNext,
                   rqCount>>
    /\ UNCHANGED notRequestVars

\* The server receives its next request.
NewRequest(r) ==
    /\ rqStage \in {"done", "feed", "router"}
    /\ rqCount < MaxRequests
    /\ Arrive(r)
    /\ rqCount' = rqCount + 1
    /\ UNCHANGED filterMounted
    /\ UNCHANGED notRequestVars

RequestNext ==
    \/ AuthMiddleware
    \/ PouchFilterMiddleware
    \/ ExpressPouchDB
    \/ Router
    \/ \E r \in Requests : NewRequest(r)

RequestSpec == RequestInit /\ [][RequestNext]_vars

(***************************************************************************)
(* Socket.IO notifications: the server listens to the changes of its       *)
(* database and emits each one to the connected clients.                   *)
(***************************************************************************)
NotifyInit ==
    /\ user = [userId |-> "s1", role |-> "student"]
    /\ SessionInit
    /\ PolicyIdle
    /\ RequestIdle
    /\ SocketIdle
    /\ PairIdle
    /\ ApiIdle

\* io.on('connection'): client c connects; the handler asks for no token
SocketConnect(c) ==
    /\ c \notin sockets
    /\ sockets' = sockets \cup {c}
    /\ UNCHANGED inbox
    /\ UNCHANGED notSocketVars

\* socket.on('disconnect')
SocketDisconnect(c) ==
    /\ c \in sockets
    /\ sockets' = sockets \ {c}
    /\ UNCHANGED inbox
    /\ UNCHANGED notSocketVars

\* io.emit(event, change): the clients that receive the event
EmitTargets(d) == sockets

\* db.changes(...).on('change'): document d changed
OnChange(d) ==
    /\ inbox' = [c \in Viewers |->
                    IF c \in EmitTargets(d) THEN inbox[c] \cup {d} ELSE inbox[c]]
    /\ UNCHANGED sockets
    /\ UNCHANGED notSocketVars

NotifyNext ==
    \/ \E c \in Viewers : SocketConnect(c)
    \/ \E c \in Viewers : SocketDisconnect(c)
    \/ \E d \in DocIds : OnChange(d)

NotifySpec == NotifyInit /\ [][NotifyNext]_vars

(***************************************************************************)
(* Two concurrent filtered feed sessions served by the one middleware      *)
(* function that createPouchFilterMiddleware(db) returned.  Each step of   *)
(* a session is a function of the session's own state.                     *)
(***************************************************************************)
\* the streams the upstream produces for a session: one change, of the
\* class document a or c
PairStreams ==
    {RecordLine(1, [id |-> d, del |-> FALSE]) \o <<NL>> : d \in {"a", "c"}}

\* a `buffer` variable declared once, in the scope of the factory
BufferCellShared(i) == 1

\* `let buffer = ''` is declared inside the request handler: every request
\* has its own
BufferCell(i) == i

\* res.write override with the characters chunk
WriteStep(st, chunk) ==
    LET buf == st.buffer \o chunk
        boundary == LastIndexOfNL(buf)
        lines == Split(SubSeq(buf, 1, boundary - 1))
    IN  IF boundary # 0
        THEN [st EXCEPT !.buffer = SubSeq(buf, boundary + 1, Len(buf)),
                        !.batches = Append(st.batches,
                                        [lines |-> lines, res |-> InitialRes(lines)]),
                        !.ready = IF LookupSeqs(lines) = {}
                                  THEN Append(st.ready, Len(st.batches) + 1)
                                  ELSE st.ready]
        ELSE [st EXCEPT !.buffer = buf]

\* db.get of line k of batch b settles for the session of principal u
LookupStep(st, u, b, k, transient) ==
    LET line == st.batches[b].lines[k]
        o == IF transient THEN "error" ELSE isUserAllowed(u, DB[line[1].id])
        res2 == [st.batches[b].res EXCEPT ![k] = LineResult(o)]
    IN  [st EXCEPT !.batches[b].res = res2,
                   !.ready = IF \A j \in 1..Len(res2) : res2[j] # "pending"
                             THEN Append(st.ready, b) ELSE st.ready]

\* the then callback of the oldest resolved Promise.all
FlushStep(st) ==
    LET b == Head(st.ready)
    IN  [st EXCEPT !.out = IF st.ended THEN st.out
                           ELSE st.out \o FilteredOutput(st.batches[b]),
                   !.batches[b] = [lines |-> <<>>, res |-> <<>>],
                   !.ready = Tail(st.ready)]

\* res.end override; rest is what the upstream passes to end
EndStep(st, rest) ==
    [st EXCEPT !.out = st.out \o st.buffer \o rest, !.ended = TRUE]

Event(op, data, b, k, tr) == [op |-> op, data |-> data, b |-> b, k |-> k, tr |-> tr]

Apply(st, u, ev) ==
    CASE ev.op = "write" -> WriteStep(st, ev.data)
      [] ev.op = "lookup" -> LookupStep(st, u, ev.b, ev.k, ev.tr)
      [] ev.op = "flush" -> FlushStep(st)
      [] ev.op = "end" -> EndStep(st, ev.data)

\* the state session i works on: its closure's buffer and the rest
SessionState(i) ==
    [buffer |-> cell[BufferCell(i)], batches |-> pairSess[i].batches,
     ready |-> pairSess[i].ready, out |-> pairSess[i].out,
     ended |-> pairSess[i].ended]

\* session i takes the step ev
PairStep(i, ev) ==
    LET st2 == Apply(SessionState(i), pairUser[i], ev)
    IN  /\ cell' = [cell EXCEPT ![BufferCell(i)] = st2.buffer]
        /\ pairSess' = [pairSess EXCEPT ![i] = PairRest(st2)]
        /\ pairHist' = [pairHist EXCEPT ![i] = Append(@, ev)]
        /\ UNCHANGED pairUser
        /\ UNCHANGED notPairVars

PairInit ==
    /\ user = [userId |-> "s1", role |-> "student"]
    /\ SessionInit
    /\ PolicyIdle
    /\ RequestIdle
    /\ SocketIdle
    /\ pairUser \in [Sessions -> Viewers]
    /\ pairWire \in [Sessions -> PairStreams]
    /\ cell = [i \in Sessions |-> <<>>]
    /\ pairSess = [i \in Sessions |-> PairRest(PairStart)]
    /\ pairHist = [i \in Sessions |-> <<>>]
    /\ ApiIdle

PairWrite(i, n) ==
    /\ ~pairSess[i].ended
    /\ n \in 1..Min(MaxChunk, Len(pairWire[i]))
    /\ PairStep(i, Event("write", SubSeq(pairWire[i], 1, n), 0, 0, FALSE))
    /\ pairWire' = [pairWire EXCEPT ![i] = SubSeq(@, n + 1, Len(@))]

PairLookupComplete(i, b, k, transient) ==
    /\ b \in 1..Len(pairSess[i].batches)
    /\ k \in 1..Len(pairSess[i].batches[b].lines)
    /\ pairSess[i].batches[b].res[k] = "pending"
    /\ PairStep(i, Event("lookup", <<>>, b, k, transient))
    /\ UNCHANGED pairWire

PairFlush(i) ==
    /\ pairSess[i].ready # <<>>
    /\ PairStep(i, Event("flush", <<>>, 0, 0, FALSE))
    /\ UNCHANGED pairWire

PairEnd(i) ==
    /\ ~pairSess[i].ended
    /\ PairStep(i, Event("end", pairWire[i], 0, 0, FALSE))
    /\ pairWire' = [pairWire EXCEPT ![i] = <<>>]

PairNext ==
    \/ \E i \in Sessions, n \in 1..MaxChunk : PairWrite(i, n)
    \/ \E i \in Sessions, b \in 1..MaxBatches, k \in 1..MaxBatches, tr \in BOOLEAN :
          PairLookupComplete(i, b, k, tr)
    \/ \E i \in Sessions : PairFlush(i)
    \/ \E i \in Sessions : PairEnd(i)

PairSpec == PairInit /\ [][PairNext]_vars

(***************************************************************************)
(* Login and the REST routers mounted on /api.  The requests are handled   *)
(* one after the other; a REST request carries a token that verifies, so   *)
(* that req.user is the payload of a token login issued.                   *)
(***************************************************************************)
ApiInit ==
    /\ user = [userId |-> "s1", role |-> "student"]
    /\ SessionInit
    /\ PolicyIdle
    /\ RequestIdle
    /\ SocketIdle
    /\ PairIdle
    /\ apiAdmin \in BOOLEAN
    /\ \E annKnown \in BOOLEAN : store = StoreInit(annKnown, apiAdmin)
    /\ issued = TokensOf(store)
    /\ apiReq = NoApiRequest
    /\ apiStatus = 0
    /\ apiList = {}
    /\ apiToken = NoToken
    /\ apiCount = 0

\* what a handler leaves: the request, the status and body of the response
Respond(req, status, list, token) ==
    /\ apiReq' = req
    /\ apiStatus' = status
    /\ apiList' = list
    /\ apiToken' = token
    /\ apiCount' = apiCount + 1
    /\ UNCHANGED apiAdmin
    /\ UNCHANGED notApiVars

\* db.put of a document that carries a _rev: it must be the current one
PutOk(d) == d._id # <<>> /\ store[d._id] # Absent /\ store[d._id]._rev = d._rev

\* the database after a successful db.put of d
AfterPut(d) == [store EXCEPT ![d._id] = [d EXCEPT !._rev = Rev(d._id, d._rev.n + 1)]]

\* the role login gives a user it creates
NewUserRole(name) == IF StartsWithTeacher(name) THEN "teacher" ELSE "student"

\* login that creates the user document without looking for a stored one
LoginFreshUser(name, pw) ==
    /\ apiCount < MaxApiRequests
    /\ LET req == [NoApiRequest EXCEPT !.method = "POST", !.route = "/api/auth/login",
                                      !.username = name, !.password = pw]
           newUser == UserDoc(name, NewUserRole(name))
       IN  IF name = <<>> \/ pw = ""
           THEN /\ Respond(req, 400, {}, NoToken)
                /\ UNCHANGED <<store, issued>>
           ELSE /\ store' = [store EXCEPT ![UserDocId(name)] = newUser]
                /\ issued' = issued \cup {Payload(newUser)}
                /\ Respond(req, 200, {}, Payload(newUser))

\* POST /api/auth/login
Login(name, pw) ==
    /\ apiCount < MaxApiRequests
    /\ LET req == [NoApiRequest EXCEPT !.method = "POST", !.route = "/api/auth/login",
                                      !.username = name, !.password = pw]
           found == store[UserDocId(name)] # Absent
           newUser == UserDoc(name, NewUserRole(name))
           userDoc == IF found THEN store[UserDocId(name)] ELSE newUser
       IN  IF name = <<>> \/ pw = ""
           THEN /\ Respond(req, 400, {}, NoToken)
                /\ UNCHANGED <<store, issued>>
           ELSE /\ store' = IF found THEN store
                            ELSE [store EXCEPT ![UserDocId(name)] = newUser]
                /\ issued' = issued \cup {Payload(userDoc)}
                /\ Respond(req, 200, {}, Payload(userDoc))

\* db.find with a selector on type: ids of the documents of the types ts
Find(ts) == {id \in ApiIds : store[id].type \in ts}

\* GET /api/users: status and ids of the documents in the body
GetUsers(u) ==
    IF u.role # "admin" THEN [status |-> 403, list |-> {}]
    ELSE [status |-> 200, list |-> Find({"user"})]

\* GET /api/students
GetStudents(u) ==
    LET allStudents == Find({"student"})
        teacherClasses == {id \in Find({"class"}) : store[id].teacherId = u.userId}
        studentIds == UNION {store[c].studentIds : c \in teacherClasses}
    IN  IF u.role = "student"
        THEN [status |-> 200, list |-> {id \in allStudents : store[id]._id = u.userId}]
        ELSE IF u.role = "teacher"
        THEN IF \E c \in teacherClasses : ~store[c].hasStudentIds
             THEN [status |-> 500, list |-> {}]
             ELSE [status |-> 200, list |-> {id \in allStudents : store[id]._id \in studentIds}]
        ELSE IF u.role = "admin"
        THEN [status |-> 200, list |-> allStudents]
        ELSE [status |-> 200, list |-> {}]

\* GET /api/classes
GetClasses(u) ==
    LET allClasses == Find({"class"})
    IN  IF u.role = "teacher"
        THEN [status |-> 200, list |-> {id \in allClasses : store[id].teacherId = u.userId}]
        ELSE IF u.role = "student"
        THEN IF \E c \in allClasses : ~store[c].hasStudentIds
             THEN [status |-> 500, list |-> {}]
             ELSE [status |-> 200,
                   list |-> {id \in allClasses : u.userId \in store[id].studentIds}]
        ELSE IF u.role = "admin"
        THEN [status |-> 200, list |-> allClasses]
        ELSE [status |-> 200, list |-> {}]

\* GET /api/teachers
GetTeachers(u) ==
    LET allTeachers == Find({"teacher"})
        allClasses == Find({"class"})
        studentClasses == {id \in allClasses : u.userId \in store[id].studentIds}
        teacherIds == {store[c].teacherId : c \in studentClasses}
    IN  IF u.role = "teacher"
        THEN [status |-> 200, list |-> {id \in allTeachers : store[id]._id = u.userId}]
        ELSE IF u.role = "student"
        THEN IF \E c \in allClasses : ~store[c].hasStudentIds
             THEN [status |-> 500, list |-> {}]
             ELSE [status |-> 200, list |-> {id \in allTeachers : store[id]._id \in teacherIds}]
        ELSE IF u.role = "admin"
        THEN [status |-> 200, list |-> allTeachers]
        ELSE [status |-> 200, list |-> {}]

\* router.get('/') of the router mounted on the route
Get(route, u) ==
    /\ apiCount < MaxApiRequests
    /\ u \in issued
    /\ LET req == [NoApiRequest EXCEPT !.method = "GET", !.route = route, !.user = u]
           r == CASE route = "/api/users" -> GetUsers(u)
                  [] route = "/api/teachers" -> GetTeachers(u)
                  [] route = "/api/students" -> GetStudents(u)
                  [] route = "/api/classes" -> GetClasses(u)
       IN  Respond(req, r.status, r.list, NoToken)
    /\ UNCHANGED <<store, issued>>

\* the role test of router.post('/') of every router: no test at all
PostAllowedAny(route, u) == TRUE

\* the role test of router.post('/')
PostAllowed(route, u) ==
    IF route = "/api/students" THEN u.role = "admin" \/ u.role = "teacher"
    ELSE u.role = "admin"

\* { ...req.body, type: type, createdAt }
NewDoc(body, type) ==
    [_id |-> body._id, _rev |-> body._rev, type |-> type, username |-> <<>>,
     role |-> body.role, teacherId |-> body.teacherId,
     hasStudentIds |-> body.hasStudentIds, studentIds |-> body.studentIds]

\* the id db.post stores a document under: its _id, or a generated one
PostId(d) == IF d._id = <<>> THEN NewId ELSE d._id

\* db.post succeeds for a document without _rev under an id not in use
PostOk(d) == d._rev = "none" /\ store[PostId(d)] = Absent

\* router.post('/')
Post(route, u, body) ==
    /\ apiCount < MaxApiRequests
    /\ u \in issued
    /\ body._id = <<>> => store[NewId] = Absent
    /\ LET req == [NoApiRequest EXCEPT !.method = "POST", !.route = route, !.user = u,
                                      !.body = body]
           newDoc == NewDoc(body, RouterType(route))
       IN  IF ~PostAllowed(route, u)
           THEN /\ Respond(req, 403, {}, NoToken)
                /\ UNCHANGED store
           ELSE IF PostOk(newDoc)
           THEN /\ store' = [store EXCEPT ![PostId(newDoc)] =
                                [newDoc EXCEPT !._id = PostId(newDoc),
                                               !._rev = Rev(PostId(newDoc), 1)]]
                /\ Respond(req, 201, {PostId(newDoc)}, NoToken)
           ELSE /\ Respond(req, 500, {}, NoToken)
                /\ UNCHANGED store
    /\ UNCHANGED issued

\* the authorization test of router.put('/:id') that lets everybody pass
PutAllowedAny(route, u, doc) == TRUE

\* the authorization test of router.put('/:id') on the document it fetched
PutAllowed(route, u, doc) ==
    CASE route = "/api/users" -> u.role = "admin" \/ doc._id = u.userId
      [] route = "/api/teachers" -> u.role = "admin" \/ doc._id = u.userId
      [] route = "/api/classes" -> u.role = "admin" \/ doc.teacherId = u.userId
      [] route = "/api/students" -> u.role = "admin"

\* { ...doc, ...req.body, updatedAt }
Merge(doc, body) ==
    [_id |-> IF body._id # <<>> THEN body._id ELSE doc._id,
     _rev |-> CASE body._rev = "stale" -> Rev(doc._id, 0)
                [] body._rev = "of c1" -> store[<<"c1">>]._rev
                [] OTHER -> doc._rev,
     type |-> IF body.type # "none" THEN body.type ELSE doc.type,
     username |-> doc.username,
     role |-> IF body.role # "none" THEN body.role ELSE doc.role,
     teacherId |-> IF body.teacherId # <<>> THEN body.teacherId ELSE doc.teacherId,
     hasStudentIds |-> body.hasStudentIds \/ doc.hasStudentIds,
     studentIds |-> IF body.hasStudentIds THEN body.studentIds ELSE doc.studentIds]

\* router.put('/:id')
Put(route, id, u, body) ==
    /\ apiCount < MaxApiRequests
    /\ u \in issued
    /\ LET req == [NoApiRequest EXCEPT !.method = "PUT", !.route = route, !.id = id,
                                      !.user = u, !.body = body]
           doc == store[id]
           updatedDoc == Merge(doc, body)
       IN  IF doc = Absent
           THEN /\ Respond(req, 500, {}, NoToken)
                /\ UNCHANGED store
           ELSE IF ~PutAllowed(route, u, doc)
           THEN /\ Respond(req, 403, {}, NoToken)
                /\ UNCHANGED store
           ELSE IF PutOk(updatedDoc)
           THEN /\ store' = AfterPut(updatedDoc)
                /\ Respond(req, 200, {updatedDoc._id}, NoToken)
           ELSE /\ Respond(req, 500, {}, NoToken)
                /\ UNCHANGED store
    /\ UNCHANGED issued

\* router.delete('/:id')
Delete(route, id, u) ==
    /\ apiCount < MaxApiRequests
    /\ u \in issued
    /\ LET req == [NoApiRequest EXCEPT !.method = "DELETE", !.route = route, !.id = id,
                                      !.user = u]
       IN  IF u.role # "admin"
           THEN /\ Respond(req, 403, {}, NoToken)
                /\ UNCHANGED store
           ELSE IF store[id] = Absent
           THEN /\ Respond(req, 500, {}, NoToken)
                /\ UNCHANGED store
           ELSE /\ store' = [store EXCEPT ![id] = Absent]
                /\ Respond(req, 200, {id}, NoToken)
    /\ UNCHANGED issued

\* every payload a token can carry in the model
ApiUsers ==
    [userId : {UserDocId(n) : n \in Usernames \ {<<>>}}, username : Usernames \ {<<>>},
     role : {"student", "teacher", "admin"}]

ApiNext ==
    \/ \E name \in Usernames : \E pw \in Passwords : Login(name, pw)
    \/ \E route \in ApiRoutes : \E u \in ApiUsers : Get(route, u)
    \/ \E route \in ApiRoutes : \E u \in ApiUsers : \E body \in ApiBodies :
           Post(route, u, body)
    \/ \E route \in ApiRoutes : \E id \in ApiIds : \E u \in ApiUsers :
           \E body \in ApiBodies : Put(route, id, u, body)
    \/ \E route \in ApiRoutes : \E id \in ApiIds : \E u \in ApiUsers :
           Delete(route, id, u)

ApiSpec == ApiInit /\ [][ApiNext]_vars

(***************************************************************************)
(* Properties.                                                             *)
(***************************************************************************)
\* the change line with seq s is on the transport
RecordWritten(s) == \E k \in 1..Len(out) : out[k].t = "body" /\ out[k].seq = s

\* the change line with seq s waits in a batch that was not flushed
InBatch(s) ==
    \E b \in 1..Len(batches) : \E k \in 1..Len(batches[b].lines) :
        HasId(batches[b].lines[k]) /\ batches[b].lines[k][1].seq = s

\* the lookup of seq s settled and the batch of its line was flushed
Flushed(s) == lookupLog[s] \notin {"none", "pending"} /\ ~InBatch(s)

\* the response is finished and no callback of the session is outstanding
Quiescent == ended /\ wire = <<>> /\ ready = <<>> /\
             \A b \in 1..Len(batches) : batches[b].lines = <<>>

Emitted == since + 1 .. upNext - 1

\* C1 -- Non-leakage: no change record whose stored document the policy
\* denies for the session's user is ever on the transport, whatever the
\* order of the lookups, the chunking, or what the buffer holds at end().
C1_NonLeakage ==
    \A k \in 1..Len(out) :
        (out[k].t = "body" /\ ~out[k].del /\ out[k].id \notin Deleted)
            => isUserAllowed(user, DB[out[k].id]) # "deny"

\* C2 -- Fail-closed under lookup failure: a record that is no deletion and
\* whose lookup failed is never on the transport, and by the time the
\* filter has advanced past it the lookup was issued exactly twice.
C2_FailClosedLookup ==
    \A s \in Emitted :
        (lookupLog[s] = "error" /\ ~feed[s].del)
            => /\ ~RecordWritten(s)
               /\ Flushed(s) => gets[s] = 2

\* C3 -- Order preservation: the records on the transport appear in
\* strictly increasing seq order.
C3_OrderPreserved ==
    \A i, j \in 1..Len(SeqsOf(out)) : i < j => SeqsOf(out)[i] < SeqsOf(out)[j]

\* C4 -- Nothing undecided is forwarded: every record on the transport had
\* its lookup completed and was decided allow (a deletion whose document is
\* not found counts as allow).
C4_OnlyDecidedForwarded ==
    \A s \in Emitted :
        RecordWritten(s)
            => \/ lookupLog[s] = "allow"
               \/ feed[s].del /\ lookupLog[s] = "notfound"

\* C5 -- No error fails open: a record whose policy evaluation raised is
\* not on the transport.
C5_PolicyErrorDenies ==
    \A s \in Emitted : lookupLog[s] = "throw" => ~RecordWritten(s)

\* C6 -- Deletion-always-forwarded: once the session is over, every
\* deletion record whose lookup returned not-found and whose document had a
\* record forwarded before is on the transport.
C6_DeletionForwarded ==
    Quiescent =>
        \A s \in Emitted :
            (/\ feed[s].del
             /\ lookupLog[s] = "notfound"
             /\ \E r \in Emitted : r < s /\ feed[r].id = feed[s].id /\ RecordWritten(r))
                => RecordWritten(s)

\* C7 -- The cursor advances past denied records: when the session is over,
\* the upstream closed it with last_seq = s and every record up to s was
\* forwarded or denied, the cursor the viewer holds is s.
C7_CursorPastDenied ==
    (/\ Quiescent
     /\ upLast >= 0
     /\ \A s \in Emitted : RecordWritten(s) \/ lookupLog[s] = "deny")
        => ViewerCursor = upLast

\* all records the viewer received, over its connections
Delivered == prevOut \o SeqsOf(out)

\* C8 -- Resumption idempotence: over a connection and the reconnect that
\* follows it no record is received twice, and the records of the later
\* connection come after every record received before.
C8_ResumeIdempotent ==
    /\ \A i, j \in 1..Len(Delivered) : i # j => Delivered[i] # Delivered[j]
    /\ \A i \in 1..Len(prevOut), j \in 1..Len(SeqsOf(out)) : prevOut[i] < SeqsOf(out)[j]

\* C9 -- isUserAllowed is total and fail-closed: it never raises, and a
\* principal other than an admin is denied every document of unknown type.
C9_PolicyTotal ==
    /\ pResult # "throw"
    /\ (pResult # "none" /\ pUser.role # "admin" /\ pDoc.type \notin KnownTypes)
          => pResult = "deny"

\* a document of one of the four schemas: a class carries studentIds
Conforms(doc) ==
    /\ doc.type \in KnownTypes
    /\ doc.type = "class" => doc.hasStudentIds

\* The ordered rules as the claim words them: rule 2 grants any document
\* whose _id is the principal's id.
DecideAnyOwner(u, doc) ==
    IF u.role = "admin" THEN "allow"
    ELSE IF doc._id = u.userId THEN "allow"
    ELSE IF u.role = "teacher" /\ doc.type \in {"student", "teacher"} THEN "allow"
    ELSE IF doc.type = "class" /\
            \/ u.role = "teacher" /\ doc.teacherId = u.userId
            \/ u.role = "student" /\ u.userId \in doc.studentIds
         THEN "allow"
    ELSE "deny"

\* The ordered rules with rule 2 granting the principal's own user document.
DecideOwnUser(u, doc) ==
    IF u.role = "admin" THEN "allow"
    ELSE IF doc.type = "user" /\ doc._id = u.userId THEN "allow"
    ELSE IF u.role = "teacher" /\ doc.type \in {"student", "teacher"} THEN "allow"
    ELSE IF doc.type = "class" /\
            \/ u.role = "teacher" /\ doc.teacherId = u.userId
            \/ u.role = "student" /\ u.userId \in doc.studentIds
         THEN "allow"
    ELSE "deny"

Unverifiable(h) ==
    h = <<>> \/ h[1] # "Bearer" \/ Len(h) < 2 \/ ~JwtVerifies(h[2])

C12_NotifyAuthorized ==
    \A c \in Viewers : \A d \in inbox[c] : isUserAllowed(c, DB[d]) = "allow"

\* C13: the response to a request on /db of an authenticated user who is
\* not an admin -- a changes request with or without the feed parameter, or
\* the fetch of a document -- contains no document that isUserAllowed denies
\* for that user.
C13_DbOnlyAuthorized ==
    (rq.route = "/db" /\ rqUser # NoUser /\ rqUser.role # "admin") =>
        \A d \in rqBody : isUserAllowed(rqUser, DB[d]) = "allow"

\* C14: while the underlying response is full, a call of the intercepting
\* write does not report acceptance, so that the upstream stops and the
\* records pulled but not yet written stay bounded.
C14_Backpressure ==
    [][(full /\ \E n \in 1..MaxChunk : Write(n)) => writeRet' # "true"]_vars

C16_OneShotComplete ==
    Quiescent => \A s \in Emitted : lookupLog[s] = "allow" => RecordWritten(s)

\* the lines of a character sequence that are terminated by "\n"
LinesOf(x) ==
    IF LastIndexOfNL(x) = 0 THEN <<>> ELSE Split(SubSeq(x, 1, LastIndexOfNL(x) - 1))

\* The lines o are the beginning of the lines s with some of the records
\* of s left out: every other line of s is in o once, unchanged, between
\* the same records.
RECURSIVE InPlace(_, _)
InPlace(o, s) ==
    IF o = <<>> THEN TRUE
    ELSE IF s = <<>> THEN FALSE
    ELSE \/ o[1] = s[1] /\ InPlace(Tail(o), Tail(s))
         \/ HasId(s[1]) /\ InPlace(o, Tail(s))

\* C17: heartbeats and other lines that are no records are written once,
\* unchanged and in their place among the forwarded records: as long as the
\* response is not ended and no record was denied, the lines written are
\* lines the upstream produced, in the upstream's order, only records
\* missing.
C17_HeartbeatInPlace ==
    (~ended /\ \A s \in Seqs : lookupLog[s] # "deny")
        => InPlace(LinesOf(out), LinesOf(sent))

\* empty lines in a character sequence
EmptyLines(x) ==
    Cardinality({k \in 1..Len(x) : x[k] = NL /\ (k = 1 \/ x[k-1] = NL)})

\* C18: a denied record causes nothing to be written, no empty line
\* either: the transport carries no more empty lines than the upstream
\* produced heartbeats.
C18_DeniedWritesNothing ==
    EmptyLines(out) <= hbCount

\* the state of a session computed from nothing but its own principal u
\* and its own steps h
RECURSIVE Replay(_, _)
Replay(u, h) ==
    IF h = <<>> THEN PairStart
    ELSE Apply(Replay(u, SubSeq(h, 1, Len(h) - 1)), u, h[Len(h)])

\* C19: in every interleaving of two concurrent sessions, the line buffer
\* and the output of each session are what its own chunks, principal and
\* lookup results determine.
C19_SessionsIsolated ==
    \A i \in Sessions :
        LET own == Replay(pairUser[i], pairHist[i])
        IN  /\ cell[BufferCell(i)] = own.buffer
            /\ pairSess[i].out = own.out

\* C19 witness: session 1 holds an unfinished line in its buffer while
\* session 2, of another principal and not ended, has flushed output.
C19_Witness ==
    /\ pairUser[1] # pairUser[2]
    /\ cell[BufferCell(1)] # <<>>
    /\ ~pairSess[2].ended
    /\ pairSess[2].out # <<>>

C22_CreateDeleteByRole ==
    [][(/\ apiCount' = apiCount + 1
        /\ apiReq'.route \in ApiRoutes
        /\ apiReq'.method \in {"POST", "DELETE"}
        /\ apiReq'.user.role # "admin"
        /\ ~(/\ apiReq'.method = "POST"
             /\ apiReq'.route = "/api/students"
             /\ apiReq'.user.role = "teacher"))
           => (apiStatus' = 403 /\ store' = store)]_vars

\* C22 witness: the second request is the DELETE of a stored document by a
\* teacher; it was answered 403 and the document is still stored.
C22_Witness ==
    /\ apiCount = 2
    /\ apiReq.method = "DELETE"
    /\ apiReq.user.role = "teacher"
    /\ apiStatus = 403
    /\ store[apiReq.id] # Absent

\* the requester of a PUT on the route is admin, or the document doc stored
\* under the id is the requester's own (users, teachers) or a class the
\* requester teaches (classes)
MayUpdate(route, u, doc) ==
    \/ u.role = "admin"
    \/ route \in {"/api/users", "/api/teachers"} /\ doc # Absent /\ doc._id = u.userId
    \/ route = "/api/classes" /\ doc # Absent /\ doc.teacherId = u.userId

C24_UpdateKeepsIdRevType ==
    [][(/\ apiCount' = apiCount + 1
        /\ apiReq'.method = "PUT"
        /\ apiStatus' = 200)
           => /\ store'[apiReq'.id]._id = store[apiReq'.id]._id
              /\ store'[apiReq'.id].type = store[apiReq'.id].type
              /\ store'[apiReq'.id]._rev =
                     Rev(apiReq'.id, store[apiReq'.id]._rev.n + 1)]_vars

\* the student documents C25 names for the requester u
StudentsFor(u) ==
    LET students == {id \in ApiIds : store[id].type = "student"}
        taught == {c \in ApiIds : store[c].type = "class" /\ store[c].teacherId = u.userId}
    IN  CASE u.role = "student" -> {id \in students : store[id]._id = u.userId}
          [] u.role = "teacher" ->
                 {id \in students : \E c \in taught : store[id]._id \in store[c].studentIds}
          [] u.role = "admin" -> students
          [] OTHER -> {}

\* C25: GET /api/students returns exactly the student documents whose _id
\* is the requester's userId for a student, those whose _id is in studentIds
\* of a class the requester teaches for a teacher, all student documents
\* for an admin, none for any other role, and never a document of another
\* type.
C25_StudentsList ==
    (apiReq.method = "GET" /\ apiReq.route = "/api/students")
        => /\ apiStatus = 200
           /\ apiList = StudentsFor(apiReq.user)
           /\ \A id \in apiList : store[id].type = "student"

\* the class documents C26 names for the requester u
ClassesFor(u) ==
    LET classes == {id \in ApiIds : store[id].type = "class"}
    IN  CASE u.role = "teacher" -> {id \in classes : store[id].teacherId = u.userId}
          [] u.role = "student" -> {id \in classes : u.userId \in store[id].studentIds}
          [] u.role = "admin" -> classes
          [] OTHER -> {}

\* C26: GET /api/classes returns exactly the class documents whose
\* teacherId is the requester's userId for a teacher, those whose studentIds
\* contain the requester's userId for a student, all class documents for an
\* admin and none for any other role; GET /api/users is answered 403 for
\* every requester who is not admin.
C26_ClassesList ==
    /\ (apiReq.method = "GET" /\ apiReq.route = "/api/classes")
           => (apiStatus = 200 /\ apiList = ClassesFor(apiReq.user))
    /\ (apiReq.method = "GET" /\ apiReq.route = "/api/users"
            /\ apiReq.user.role # "admin")
           => apiStatus = 403

\* C27: login issues a token whose userId, username and role are those of
\* the user document stored under user_<username> at the time of issue, the
\* role being student when the document has none; the user document is
\* created only when absent, with role teacher iff the username starts with
\* "teacher" and student otherwise; an existing user document is never
\* modified by login; a request without username or password gets 400, no
\* token, and no database write.
C27_Login ==
    [][(apiCount' = apiCount + 1 /\ apiReq'.route = "/api/auth/login")
           => LET name == apiReq'.username
                  id == <<"user_">> \o name
              IN  IF name = <<>> \/ apiReq'.password = ""
                  THEN /\ apiStatus' = 400
                       /\ apiToken' = NoToken
                       /\ issued' = issued
                       /\ store' = store
                  ELSE /\ apiToken' \in issued'
                       /\ apiToken'.userId = store'[id]._id
                       /\ apiToken'.username = store'[id].username
                       /\ apiToken'.role = IF store'[id].role = "none" THEN "student"
                                           ELSE store'[id].role
                       /\ \A d \in ApiIds : store[d] # Absent => store'[d] = store[d]
                       /\ \A d \in ApiIds \ {id} : store'[d] = store[d]
                       /\ store[id] = Absent =>
                              /\ store'[id].type = "user"
                              /\ store'[id]._id = id
                              /\ store'[id].username = name
                              /\ store'[id].role = "teacher" <=> name[1] = "teacher"
                              /\ store'[id].role = "student" <=> name[1] # "teacher"]_vars

\* C27 witness: in a database without user root, the second request is a
\* login as root; it created the user document, and the token carries role
\* student.
C27_Witness ==
    /\ ~apiAdmin
    /\ apiCount = 2
    /\ apiReq.route = "/api/auth/login"
    /\ apiReq.username = <<"root">>
    /\ apiStatus = 200
    /\ store[<<"user_", "root">>]._rev = Rev(<<"user_", "root">>, 1)
    /\ apiToken.role = "student"

\* C28: no privilege escalation: in a database set up without admin, where
\* every token carries role student or teacher, no sequence of login and
\* REST requests gives a user document role admin or issues a token with
\* role admin.
C28_NoEscalation ==
    ~apiAdmin =>
        /\ \A id \in ApiIds : store[id].type = "user" => store[id].role # "admin"
        /\ \A t \in issued : t.role # "admin"

====
